---- MODULE Spec2Model ----
(***************************************************************************)
(* The LambdaRank training loop of ranking/LambdaRank.py, train().         *)
(*                                                                         *)
(* One state machine: the configuration and the training data are fixed by *)
(* Init, and every further step is one step of train(): the set-up, the    *)
(* head of an epoch, one session of the data source (skipped or scored and *)
(* accumulated), the steps of a flush (one backward call per stored pair,  *)
(* the optimizer step, zero_grad, the clearing of the batch), the end of   *)
(* an epoch and the final saves.                                           *)
(*                                                                         *)
(* Values the model keeps exactly: labels, the integer part of the         *)
(* pairwise computation (gain_diff as exact rationals, rank_order), list   *)
(* contents and their order, every counter.  Floating point values that    *)
(* pass through exp and log2 are kept by their class only: "fin" for a     *)
(* finite number and "nan" for a NaN.  A score is a small natural number   *)
(* or NaN.  A tensor that is stored in a list carries the tag <<epoch,     *)
(* position>> of the session it was computed from, which stands for the    *)
(* identity of the tensor object.                                          *)
(***************************************************************************)
EXTENDS Integers, Sequences, FiniteSets, TLC

VARIABLES
    pc,                  \* where train() is
    optim,               \* argument optim
    ndcg_gain_in_train,  \* argument ndcg_gain_in_train
    start_epoch,         \* argument start_epoch
    additional_epoch,    \* argument additional_epoch
    df_train,            \* the query groups of the training file, in file order
    num_sessions,        \* how many sessions the data source yields per epoch
    i,                   \* the epoch index of the for loop
    pos,                 \* sessions the iterator has yielded in this epoch
    count,               \* local count
    grad_batch,          \* local grad_batch
    y_pred_batch,        \* local y_pred_batch
    Y,                   \* loop variable Y
    y_pred,              \* local y_pred
    gain_diff,           \* local gain_diff
    rank_order,          \* local rank_order
    j,                   \* index of the zip loop of a flush
    net_grad,            \* the .grad of the network: the backward calls summed into it
    applied_grad,        \* the gradient the last optimizer.step() applied
    optimizer_steps,     \* calls of optimizer.step()
    scheduler_steps,     \* calls of scheduler.step()
    forward_calls,       \* calls of net(X_tensor)
    maxDCG_calls,        \* calls of ideal_dcg.maxDCG(Y)
    ckpts,               \* the epochs handed to save_to_ckpt, in order
    model_saved,         \* torch.save(net.state_dict(), ckptfile) has run
    evals,               \* calls of eval_ndcg_at_k
    breakpoints          \* times the debugger of line 166 was entered

vars == <<pc, optim, ndcg_gain_in_train, start_epoch, additional_epoch, df_train,
          num_sessions, i, pos, count, grad_batch, y_pred_batch, Y, y_pred,
          gain_diff, rank_order, j, net_grad, applied_grad, optimizer_steps,
          scheduler_steps, forward_calls, maxDCG_calls, ckpts, model_saved, evals,
          breakpoints>>

(***************************************************************************)
(* Bounds of the model and constants of the program.                       *)
(***************************************************************************)
MaxEpochs == 2

MaxBatches == 2

MaxDocs == 3

MaxLabel == 2

MaxScore == 2

batch_size == 100

\* NaN sorts above every number in torch.argsort, and the network's scores
\* are numbers of 0..MaxScore otherwise.
NaN == MaxScore + 1

RECURSIVE Sum(_)
Sum(s) == IF s = <<>> THEN 0 ELSE Head(s) + Sum(Tail(s))

(***************************************************************************)
(* The data source.  generate_batch_per_query yields the sessions of       *)
(* df_train in file order, the same sessions in every epoch; df_train      *)
(* holds the distinct query groups and the file repeats them cyclically    *)
(* up to num_sessions sessions.  A session is its labels Y and the scores  *)
(* S the network gives its documents.                                      *)
(***************************************************************************)
Session(k) == df_train[((k - 1) % Len(df_train)) + 1]

NegativeSession == [Y |-> <<0, 0>>, S |-> <<1, 0>>]

PositiveSession == [Y |-> <<2, 0, 1>>, S |-> <<0, 2, 1>>]

NaNSession == [Y |-> <<1>>, S |-> <<NaN>>]

Patterns ==
    { <<PositiveSession>>, <<NegativeSession>>,
      <<PositiveSession, NegativeSession>>, <<NegativeSession, PositiveSession>>,
      <<PositiveSession, NaNSession>>,
      <<NegativeSession, PositiveSession, PositiveSession>> }

SessionCounts ==
    { n \in { k * batch_size + d : k \in 0..MaxBatches, d \in {-1, 0, 1} } : n >= 0 }

Vectors(n, vals) == [1..n -> vals]

\* One session with every label vector, scored without ties.
LabelDataSets ==
    { << [Y |-> y, S |-> [k \in 1..Len(y) |-> Len(y) - k]] >> :
        y \in UNION { Vectors(n, 0..MaxLabel) : n \in 1..MaxDocs } }

\* One session with every score vector, NaN included.
ScoreDataSets ==
    { << [Y |-> [k \in 1..Len(s) |-> IF k = 1 THEN 1 ELSE 0], S |-> s] >> :
        s \in UNION { Vectors(n, 0..NaN) : n \in 1..MaxDocs } }

(***************************************************************************)
(* Pure parts of the per-session computation.                              *)
(***************************************************************************)
IsDegenerate_never(Yv) == FALSE

\* line 140: np.sum(Y) == 0
IsDegenerate(Yv) == Sum(Yv) = 0

\* metrics.NDCG(2**9, gain_type): the constructor accepts the two gain
\* policies and raises ValueError for any other.
NDCGAccepts(gain_type) == gain_type \in {"exp2", "identity"}

\* lines 152-157: the policies train() itself has a branch for
GainSupported(gain_type) == gain_type \in {"exp2", "identity"}

\* torch.pow(2.0, e) as an exact rational <<numerator, denominator>>
Pow2(e) == IF e >= 0 THEN <<2 ^ e, 1>> ELSE <<1, 2 ^ (0 - e)>>

\* lines 151-155: gain_diff, entry [a][b]
GainDiff(Yv, gain_type) ==
    [a \in 1..Len(Yv) |->
        [b \in 1..Len(Yv) |->
            IF gain_type = "exp2"
            THEN Pow2(Yv[a] - Yv[b])
            ELSE <<Yv[a] - Yv[b], 1>>]]

\* torch.argsort(y_pred, dim=0, descending=True): the 0-based indices of the
\* documents in descending order of score, row p holding the document that
\* takes position p.  The order among equal scores is not defined by the
\* library, so every descending order is a possible result.
Argsort(S) ==
    { p \in [1..Len(S) -> 0..(Len(S) - 1)] :
        /\ \A a, b \in 1..Len(S) : a # b => p[a] # p[b]
        /\ \A a, b \in 1..Len(S) : a < b => S[p[a] + 1] >= S[p[b] + 1] }

\* line 158: rank_order = argsort(...).type(torch.float) + 1.0
RankOrder(order) == [k \in 1..Len(order) |-> order[k] + 1]

\* lines 150-162: lambda_update by the class of its entries.  Each entry is
\* a sum over the row of -N / score_diff * gain_diff * decay_diff; a NaN
\* score makes score_diff NaN in every row, every other factor is finite.
LambdaUpdate(S) ==
    [k \in 1..Len(S) |-> IF \E m \in 1..Len(S) : S[m] = NaN THEN "nan" ELSE "fin"]

\* torch.sum(lambda_update, (0, 1)) by its class: a NaN entry makes the sum NaN
SumClass(lam) == IF \E k \in 1..Len(lam) : lam[k] = "nan" THEN "nan" ELSE "fin"

\* line 165: torch.sum(lambda_update, (0, 1)).item() == float('inf')
SumIsInf(lam) == SumClass(lam) = "inf"

FlushDue_everyQueryAfterFirstBatch(c) == c >= batch_size

\* line 173: count % batch_size == 0
FlushDue(c) == c % batch_size = 0

EpochLoopContinues_offByOne == i <= start_epoch + additional_epoch

\* line 130: for i in range(start_epoch, start_epoch + additional_epoch)
EpochLoopContinues == i < start_epoch + additional_epoch

\* line 174: zip stops at the shorter list
ZipLen == IF Len(grad_batch) <= Len(y_pred_batch) THEN Len(grad_batch) ELSE Len(y_pred_batch)

BackwardCall_noAveraging(k) ==
    [grad |-> grad_batch[k], y |-> y_pred_batch[k].src, div |-> 1]

\* line 175: y_pred.backward(grad / batch_size)
BackwardCall(k) ==
    [grad |-> grad_batch[k], y |-> y_pred_batch[k].src, div |-> batch_size]

(***************************************************************************)
(* Init: the arguments of train() and the loaded data.                     *)
(***************************************************************************)
Locals ==
    /\ pc = "start"
    /\ i = start_epoch
    /\ pos = 0
    /\ count = 0
    /\ grad_batch = <<>>
    /\ y_pred_batch = <<>>
    /\ Y = <<>>
    /\ y_pred = <<>>
    /\ gain_diff = <<>>
    /\ rank_order = <<>>
    /\ j = 1
    /\ net_grad = <<>>
    /\ applied_grad = <<>>
    /\ optimizer_steps = 0
    /\ scheduler_steps = 0
    /\ forward_calls = 0
    /\ maxDCG_calls = 0
    /\ ckpts = <<>>
    /\ model_saved = FALSE
    /\ evals = 0
    /\ breakpoints = 0

\* Long data sets: whole accumulation windows, with and without a rest.
InitAccumulation ==
    /\ optim = "adam"
    /\ ndcg_gain_in_train = "exp2"
    /\ start_epoch = 9
    /\ additional_epoch \in 0..MaxEpochs
    /\ df_train \in Patterns
    /\ num_sessions \in SessionCounts
    /\ Locals

\* One session, every label vector and every score vector, both policies.
InitSession ==
    /\ optim = "sgd"
    /\ ndcg_gain_in_train \in {"exp2", "identity"}
    /\ start_epoch = 0
    /\ additional_epoch = 1
    /\ df_train \in LabelDataSets \cup ScoreDataSets
    /\ num_sessions = 1
    /\ Locals

\* Every configuration, supported or not.
InitConfiguration ==
    /\ optim \in {"adam", "sgd", "lbfgs"}
    /\ ndcg_gain_in_train \in {"exp2", "identity", "log"}
    /\ start_epoch \in {0, 9}
    /\ additional_epoch \in 0..MaxEpochs
    /\ df_train \in {<<PositiveSession>>, <<NegativeSession, PositiveSession>>}
    /\ num_sessions \in {0, 2}
    /\ Locals

Init == InitAccumulation \/ InitSession \/ InitConfiguration

\* The runs whose termination is checked: every configuration, every single
\* session, and the long data sets with and without skipped sessions.
InitTermination ==
    \/ InitAccumulation /\ df_train \in {<<PositiveSession>>, <<NegativeSession, PositiveSession>>}
    \/ InitSession
    \/ InitConfiguration

(***************************************************************************)
(* The steps of train().                                                   *)
(***************************************************************************)
config == <<optim, ndcg_gain_in_train, start_epoch, additional_epoch, df_train, num_sessions>>

session_locals == <<Y, y_pred, gain_diff, rank_order>>

batch == <<count, grad_batch, y_pred_batch>>

saves == <<ckpts, model_saved, evals>>

counters == <<forward_calls, maxDCG_calls, breakpoints>>

Setup_lazyNDCG ==
    /\ pc = "start"
    /\ pc' = IF optim \in {"adam", "sgd"} THEN "epoch" ELSE "raised"
    /\ UNCHANGED <<config, i, pos, batch, session_locals, j, net_grad, applied_grad,
                   optimizer_steps, scheduler_steps, counters, saves>>

\* lines 97-128: the optimizer is chosen (ValueError for an unknown one),
\* then the ideal-DCG object is built from the gain policy.
Setup ==
    /\ pc = "start"
    /\ pc' = IF optim \in {"adam", "sgd"} /\ NDCGAccepts(ndcg_gain_in_train)
             THEN "epoch" ELSE "raised"
    /\ UNCHANGED <<config, i, pos, batch, session_locals, j, net_grad, applied_grad,
                   optimizer_steps, scheduler_steps, counters, saves>>

EpochHead_listsOutsideLoop ==
    /\ pc = "epoch"
    /\ EpochLoopContinues
    /\ scheduler_steps' = scheduler_steps + 1
    /\ net_grad' = <<>>
    /\ count' = 0
    /\ pos' = 0
    /\ pc' = "fetch"
    /\ UNCHANGED <<config, i, grad_batch, y_pred_batch, session_locals, j, applied_grad,
                   optimizer_steps, counters, saves>>

\* lines 130-139: scheduler.step(), net.zero_grad(), the counter and both
\* lists start afresh, the data source starts a new pass.
EpochHead ==
    /\ pc = "epoch"
    /\ EpochLoopContinues
    /\ scheduler_steps' = scheduler_steps + 1
    /\ net_grad' = <<>>
    /\ count' = 0
    /\ grad_batch' = <<>>
    /\ y_pred_batch' = <<>>
    /\ pos' = 0
    /\ pc' = "fetch"
    /\ UNCHANGED <<config, i, session_locals, j, applied_grad, optimizer_steps,
                   counters, saves>>

\* lines 139-142: a session whose labels sum to zero
SkipSession ==
    /\ pc = "fetch"
    /\ pos < num_sessions
    /\ IsDegenerate(Session(pos + 1).Y)
    /\ pos' = pos + 1
    /\ Y' = Session(pos + 1).Y
    /\ UNCHANGED <<pc, config, i, batch, y_pred, gain_diff, rank_order, j, net_grad,
                   applied_grad, optimizer_steps, scheduler_steps, counters, saves>>

\* lines 139-173: a session with a positive label is scored, its lambda is
\* computed and stored, the counter advances and a flush starts when due.
Accumulate ==
    /\ pc = "fetch"
    /\ pos < num_sessions
    /\ ~IsDegenerate(Session(pos + 1).Y)
    /\ LET sess == Session(pos + 1)
           tag == <<i, pos + 1>>
       IN  /\ pos' = pos + 1
           /\ Y' = sess.Y
           /\ maxDCG_calls' = maxDCG_calls + 1
           /\ forward_calls' = forward_calls + 1
           /\ y_pred' = sess.S
           /\ y_pred_batch' = Append(y_pred_batch, [src |-> tag, val |-> sess.S])
           /\ IF ~GainSupported(ndcg_gain_in_train)
              THEN /\ pc' = "raised"
                   /\ UNCHANGED <<gain_diff, rank_order, grad_batch, count, j, breakpoints>>
              ELSE /\ gain_diff' = GainDiff(sess.Y, ndcg_gain_in_train)
                   /\ \E order \in Argsort(sess.S) : rank_order' = RankOrder(order)
                   \* lines 165-166 open a debugger when the sum is +inf and
                   \* go on to line 167 either way
                   /\ breakpoints' = IF SumIsInf(LambdaUpdate(sess.S))
                                      THEN breakpoints + 1 ELSE breakpoints
                   /\ grad_batch' = Append(grad_batch, [src |-> tag, val |-> LambdaUpdate(sess.S)])
                   /\ count' = count + 1
                   /\ IF FlushDue(count + 1)
                      THEN pc' = "backward" /\ j' = 1
                      ELSE pc' = "fetch" /\ j' = j
    /\ UNCHANGED <<config, i, net_grad, applied_grad, optimizer_steps, scheduler_steps, saves>>

\* lines 174-175: one pair of the zip; the loop variable is named y_pred too
Backward ==
    /\ pc = "backward"
    /\ j <= ZipLen
    /\ y_pred' = y_pred_batch[j].val
    /\ net_grad' = Append(net_grad, BackwardCall(j))
    /\ j' = j + 1
    /\ UNCHANGED <<pc, config, i, pos, batch, Y, gain_diff, rank_order, applied_grad,
                   optimizer_steps, scheduler_steps, counters, saves>>

\* lines 177-180: after the zip, optimizer.step()
OptimizerStep ==
    /\ pc = "backward"
    /\ j > ZipLen
    /\ optimizer_steps' = optimizer_steps + 1
    /\ applied_grad' = net_grad
    /\ pc' = "zero_grad"
    /\ UNCHANGED <<config, i, pos, batch, session_locals, j, net_grad, scheduler_steps,
                   counters, saves>>

\* line 181: net.zero_grad()
ZeroGrad ==
    /\ pc = "zero_grad"
    /\ net_grad' = <<>>
    /\ pc' = "clear"
    /\ UNCHANGED <<config, i, pos, batch, session_locals, j, applied_grad, optimizer_steps,
                   scheduler_steps, counters, saves>>

ClearBatch_keepsScores ==
    /\ pc = "clear"
    /\ grad_batch' = <<>>
    /\ pc' = "fetch"
    /\ UNCHANGED <<config, i, pos, count, y_pred_batch, session_locals, j, net_grad,
                   applied_grad, optimizer_steps, scheduler_steps, counters, saves>>

\* line 182: grad_batch, y_pred_batch = [], []
ClearBatch ==
    /\ pc = "clear"
    /\ grad_batch' = <<>>
    /\ y_pred_batch' = <<>>
    /\ pc' = "fetch"
    /\ UNCHANGED <<config, i, pos, count, session_locals, j, net_grad, applied_grad,
                   optimizer_steps, scheduler_steps, counters, saves>>

\* lines 184-194: the data source is exhausted; the periodic evaluation and
\* checkpoint; the stored batch is left as it is.
EpochEnd ==
    /\ pc = "fetch"
    /\ pos = num_sessions
    /\ evals' = IF i % 5 = 0 /\ i # start_epoch THEN evals + 1 ELSE evals
    /\ ckpts' = IF i % 10 = 0 /\ i # start_epoch THEN Append(ckpts, i) ELSE ckpts
    /\ i' = i + 1
    /\ pc' = "epoch"
    /\ UNCHANGED <<config, pos, batch, session_locals, j, net_grad, applied_grad,
                   optimizer_steps, scheduler_steps, counters, model_saved>>

\* lines 196-208: the last checkpoint, the final model, the final evaluation
Finish ==
    /\ pc = "epoch"
    /\ ~EpochLoopContinues
    /\ ckpts' = Append(ckpts, start_epoch + additional_epoch)
    /\ model_saved' = TRUE
    /\ evals' = evals + 1
    /\ pc' = "done"
    /\ UNCHANGED <<config, i, pos, batch, session_locals, j, net_grad, applied_grad,
                   optimizer_steps, scheduler_steps, counters>>

Next ==
    \/ Setup
    \/ EpochHead
    \/ SkipSession
    \/ Accumulate
    \/ Backward
    \/ OptimizerStep
    \/ ZeroGrad
    \/ ClearBatch
    \/ EpochEnd
    \/ Finish

Spec == Init /\ [][Next]_vars

\* train() runs on one thread and no step of it waits for anything.
FairSpec == InitTermination /\ [][Next]_vars /\ WF_vars(Next)

(***************************************************************************)
(* What the properties below speak about, stated from the data alone.      *)
(***************************************************************************)
LabelSumZero(k) == Sum(Session(k).Y) = 0

\* sessions with a positive label among the first p of an epoch: those of
\* the whole repetitions of df_train and those of the started one
NonDegenerate(p) ==
    LET L == Len(df_train)
    IN  (p \div L) * Cardinality({ k \in 1..L : ~LabelSumZero(k) })
        + Cardinality({ k \in 1..(p % L) : ~LabelSumZero(k) })

InEpochBody == pc \in {"fetch", "backward", "zero_grad", "clear"}

InFlush == pc \in {"backward", "zero_grad", "clear"}

\* optimizer steps that are due when every epoch steps once per full window
StepsDue ==
    (i - start_epoch) * (NonDegenerate(num_sessions) \div batch_size)
    + (IF InEpochBody THEN NonDegenerate(pos) \div batch_size ELSE 0)

\* the first n stored pairs, each lambda with the scores of the same index
PairsInOrder(n) ==
    [k \in 1..n |-> [grad |-> grad_batch[k], y |-> y_pred_batch[k].src, div |-> batch_size]]

PolicySupported == ndcg_gain_in_train \in {"exp2", "identity"}

ConfigSupported == PolicySupported /\ optim \in {"adam", "sgd"}

(***************************************************************************)
(* C1: within an epoch the optimizer steps exactly when the number of      *)
(* non-degenerate sessions processed becomes a multiple of batch_size, so  *)
(* after n such sessions it has stepped n div batch_size times, and when   *)
(* the loop goes on after a flush both lists are empty.                    *)
(***************************************************************************)
C1_StepEveryWindow ==
    /\ optimizer_steps = StepsDue - (IF pc = "backward" THEN 1 ELSE 0)
    /\ InFlush =>
          /\ ~LabelSumZero(pos)
          /\ NonDegenerate(pos) > 0
          /\ NonDegenerate(pos) % batch_size = 0
    /\ (pc = "fetch" /\ NonDegenerate(pos) % batch_size = 0) =>
          grad_batch = <<>> /\ y_pred_batch = <<>>

C1_Witness ==
    /\ pc = "fetch"
    /\ NonDegenerate(pos) = batch_size
    /\ pos > batch_size
    /\ optimizer_steps = 1
    /\ grad_batch = <<>>

(***************************************************************************)
(* C2: a session whose labels sum to zero is only consumed: no forward     *)
(* pass, no maxDCG call, nothing appended to either list, the counter      *)
(* unchanged, no backward call and no optimizer step.                      *)
(***************************************************************************)
C2_DegenerateSkipped ==
    [][ (pc = "fetch" /\ pos < num_sessions /\ LabelSumZero(pos + 1)) =>
            /\ pos' = pos + 1
            /\ pc' = "fetch"
            /\ UNCHANGED <<forward_calls, maxDCG_calls, grad_batch, y_pred_batch, count,
                           net_grad, applied_grad, optimizer_steps>> ]_vars

C2_Witness ==
    /\ pc = "fetch"
    /\ pos > 1
    /\ LabelSumZero(pos)
    /\ Y = Session(pos).Y
    /\ count > 0
    /\ Len(grad_batch) = count

(***************************************************************************)
(* C3: the end of an epoch flushes nothing.  The rest of a window is left  *)
(* without a backward call or an optimizer step, and the next epoch starts *)
(* with the counter at zero and both lists empty, so every backward call   *)
(* is for a session scored in the running epoch.                           *)
(***************************************************************************)
C3_NoFlushAtEpochEnd ==
    /\ \A k \in 1..Len(net_grad) :
          net_grad[k].grad.src[1] = i /\ net_grad[k].y[1] = i
    /\ InEpochBody =>
          /\ \A k \in 1..Len(grad_batch) : grad_batch[k].src[1] = i
          /\ \A k \in 1..Len(y_pred_batch) : y_pred_batch[k].src[1] = i
    /\ (pc = "fetch" /\ pos = 0) =>
          count = 0 /\ grad_batch = <<>> /\ y_pred_batch = <<>>
    /\ (pc \in {"epoch", "done"} /\ i > start_epoch) =>
          /\ net_grad = <<>>
          /\ Len(grad_batch) = NonDegenerate(num_sessions) % batch_size
          /\ optimizer_steps = (i - start_epoch) * (NonDegenerate(num_sessions) \div batch_size)

C3_Witness ==
    /\ pc = "zero_grad"
    /\ i > start_epoch
    /\ NonDegenerate(num_sessions) % batch_size # 0

(***************************************************************************)
(* C4: gain_diff[a][b] = g(Y[a]) - g(Y[b]) with g(x) = 2^x for "exp2" and  *)
(* g(x) = x for "identity"; so gain_diff is anti-symmetric and its         *)
(* diagonal is zero.                                                       *)
(***************************************************************************)
C4_GainDifference ==
    (gain_diff # <<>> /\ Len(gain_diff) = Len(Y) /\ Sum(Y) # 0) =>
        \A a, b \in 1..Len(Y) :
            /\ gain_diff[a][b] =
                  IF ndcg_gain_in_train = "exp2"
                  THEN <<2 ^ Y[a] - 2 ^ Y[b], 1>>
                  ELSE <<Y[a] - Y[b], 1>>
            /\ gain_diff[a][a] = <<0, 1>>
            /\ gain_diff[a][b][2] = gain_diff[b][a][2]
            /\ gain_diff[a][b][1] = 0 - gain_diff[b][a][1]

(***************************************************************************)
(* C5: rank_order[k] is the 1-based position of document k itself when the *)
(* documents are sorted by score, highest first: above it are exactly the  *)
(* documents that come before it.                                          *)
(***************************************************************************)
C5_RankOfOwnDocument ==
    (pc = "fetch" /\ rank_order # <<>> /\ Len(rank_order) = Len(y_pred)) =>
        \A k \in 1..Len(y_pred) :
            /\ rank_order[k] >= 1 + Cardinality({ m \in 1..Len(y_pred) : y_pred[m] > y_pred[k] })
            /\ rank_order[k] <= Cardinality({ m \in 1..Len(y_pred) : y_pred[m] >= y_pred[k] })

(***************************************************************************)
(* C6: a lambda vector with a non-finite entry is dropped: it is never     *)
(* stored in grad_batch and never handed to a backward call.               *)
(***************************************************************************)
C6_NonFiniteDropped ==
    /\ \A k \in 1..Len(grad_batch) :
          \A m \in 1..Len(grad_batch[k].val) : grad_batch[k].val[m] = "fin"
    /\ \A k \in 1..Len(net_grad) :
          \A m \in 1..Len(net_grad[k].grad.val) : net_grad[k].grad.val[m] = "fin"

C8_FlushOrder ==
    /\ pc = "backward" =>
          /\ j <= batch_size + 1
          /\ net_grad = PairsInOrder(j - 1)
          /\ optimizer_steps = StepsDue - 1
    /\ pc = "zero_grad" =>
          /\ net_grad = PairsInOrder(batch_size)
          /\ applied_grad = net_grad
          /\ optimizer_steps = StepsDue
    /\ pc = "clear" =>
          /\ net_grad = <<>>
          /\ applied_grad = PairsInOrder(batch_size)
          /\ optimizer_steps = StepsDue
    /\ InFlush =>
          /\ Len(grad_batch) = batch_size
          /\ Len(y_pred_batch) = batch_size
          /\ \A k \in 1..batch_size : grad_batch[k].src = y_pred_batch[k].src
    /\ ~InFlush => net_grad = <<>>
    /\ IF optimizer_steps > 0 THEN Len(applied_grad) = batch_size ELSE applied_grad = <<>>

C8_Witness ==
    /\ pc = "clear"
    /\ optimizer_steps = 2
    /\ Len(applied_grad) = batch_size
    /\ Len(grad_batch) = batch_size

(***************************************************************************)
(* C9: train() ends after exactly additional_epoch epochs, and then the    *)
(* last checkpoint and the final model have been saved.                    *)
(***************************************************************************)
Persisted ==
    /\ model_saved
    /\ ckpts # <<>>
    /\ ckpts[Len(ckpts)] = start_epoch + additional_epoch

C10_BatchShape ==
    pc = "fetch" =>
        /\ Len(grad_batch) = Len(y_pred_batch)
        /\ Len(grad_batch) = NonDegenerate(pos) % batch_size
        /\ Len(grad_batch) <= batch_size
        /\ \A k \in 1..Len(grad_batch) :
              /\ grad_batch[k].src = y_pred_batch[k].src
              /\ grad_batch[k].src[1] = i
              /\ grad_batch[k].src[2] \in 1..pos
              /\ ~LabelSumZero(grad_batch[k].src[2])
              /\ y_pred_batch[k].val = Session(grad_batch[k].src[2]).S
              /\ k > 1 => grad_batch[k - 1].src[2] < grad_batch[k].src[2]
        /\ grad_batch # <<>> =>
              NonDegenerate(pos) - NonDegenerate(grad_batch[1].src[2] - 1) = Len(grad_batch)

C10_Witness ==
    /\ pc = "fetch"
    /\ optimizer_steps > 0
    /\ Len(grad_batch) > 1
    /\ grad_batch[2].src[2] > grad_batch[1].src[2] + 1

====
